---- MODULE Spec2Model ----
(***************************************************************************)
(* Video-To-Reel: the transcription-to-reel pipeline of                    *)
(* "milestone 3/sub.py" (process_video_upload and the functions it calls), *)
(* and the Process handler of main() that starts a run and consumes its    *)
(* result.  Times are whole seconds; VADER compound scores are hundredths  *)
(* (0.05 is 5).                                                            *)
(***************************************************************************)
EXTENDS Integers, Sequences, FiniteSets, TLC

VARIABLES
    pc,                    \* position of the run inside main()/process_video_upload
    video_file,            \* the uploaded file handed to Process, or None
    youtube_url,           \* the URL typed into the form, "" when left empty
    video_path,            \* local variable video_path
    files,                 \* the files that exist on disk
    whisper_result,        \* what transcribe_audio_whisper returned
    important_segments,    \* local variable important_segments
    motivational_contents, \* local variable motivational_contents
    reels_paths,           \* local variable reels_paths
    i,                     \* loop variable of `for i in range(3)`
    groups,                \* history: the group_segments handed to create_reel, in call order
    reel_files,            \* content of uploads/reels/<username>_reel_<k>.mp4 written by the run
    transcript_path,       \* local variable transcript_path
    transcript_file,       \* the segments serialised into the transcript, one per line
    result,                \* the tuple process_video_upload returned, <<>> before it returns
    failed_stage,          \* history: which early return ended the run ("none": no early return)
    main_exception,        \* the exception that left main() uncaught, None when there is none
    trace,                 \* history: the side-effecting operations performed, in order
    progress,              \* history: the values handed to progress.progress, in order
    render_calls,          \* history: the reel_index of each create_reel call, in order
    summary_payload,       \* text_batch, the text sent to the summarization service
    unit                   \* the call under test of the unit specifications

vars == <<pc, video_file, youtube_url, video_path, files, whisper_result,
          important_segments, motivational_contents, reels_paths, i, groups,
          reel_files, transcript_path, transcript_file, result, failed_stage,
          main_exception, trace, progress, render_calls, summary_payload, unit>>

-----------------------------------------------------------------------------
(* Bounds of the model *)

MaxSegs == 6

MaxFilterLen == 4

MaxGroupLen == 3

(* Program constants *)

SENTIMENT_THRESHOLD == 5

CLIP_CAP == 60

K == 3

None == "None"

-----------------------------------------------------------------------------
(* Python helpers *)

Min(a, b) == IF a < b THEN a ELSE b

\* s[a:b] for 0 <= a <= b: both ends clamp to len(s)
PySlice(s, a, b) == SubSeq(s, Min(a, Len(s)) + 1, Min(b, Len(s)))

RECURSIVE Concat(_)
Concat(ss) == IF ss = <<>> THEN <<>> ELSE Head(ss) \o Concat(Tail(ss))

RECURSIVE SumSeq(_)
SumSeq(s) == IF s = <<>> THEN 0 ELSE Head(s) + SumSeq(Tail(s))

\* all sequences over S of length 0..n
SeqsUpTo(S, n) == UNION {[1..m -> S] : m \in 0..n}

-----------------------------------------------------------------------------
(* Sentiment filter *)

Texts == {"awful", "", "...", "fine", "nice", "great"}

\* sentiment_analyzer.polarity_scores(text)['compound'], in hundredths
Compound(text) ==
    CASE text = "awful" -> -46
      [] text = ""      -> 0
      [] text = "..."   -> 0
      [] text = "fine"  -> 5
      [] text = "nice"  -> 6
      [] text = "great" -> 62

analyze_sentiment_ge(segments) ==
    SelectSeq(segments, LAMBDA segment : Compound(segment.text) >= SENTIMENT_THRESHOLD)

RECURSIVE RemoveWhileIterating(_, _)
RemoveWhileIterating(s, k) ==
    IF k > Len(s) THEN s
    ELSE IF Compound(s[k].text) > SENTIMENT_THRESHOLD
         THEN RemoveWhileIterating(s, k + 1)
         ELSE RemoveWhileIterating(SubSeq(s, 1, k - 1) \o SubSeq(s, k + 1, Len(s)), k + 1)

analyze_sentiment_inplace(segments) == RemoveWhileIterating(segments, 1)

analyze_sentiment(segments) ==
    SelectSeq(segments, LAMBDA segment : Compound(segment.text) > SENTIMENT_THRESHOLD)

-----------------------------------------------------------------------------
(* Reel renderer *)

\* a clip of the source video: the interval [from, to] of the source it shows
VideoFileClip(duration) == [from |-> 0, to |-> duration]

ClipDuration(clip) == clip.to - clip.from

\* moviepy's clip.subclip(t_start, t_end): times are relative to the clip
subclip(clip, t_start, t_end) == [from |-> clip.from + t_start, to |-> clip.from + t_end]

ValidSegment(segment, duration) ==
    /\ 0 <= segment.start /\ segment.start < duration
    /\ 0 < segment.end /\ segment.end <= duration
    /\ segment.start < segment.end

trim_untrimmed(video_segment) == video_segment

trim(video_segment) ==
    IF ClipDuration(video_segment) > CLIP_CAP
    THEN subclip(video_segment, 0, CLIP_CAP)
    ELSE video_segment

RECURSIVE video_clips_abort(_, _)
video_clips_abort(segments, duration) ==
    IF segments = <<>> THEN <<>>
    ELSE LET segment == Head(segments) IN
         IF ValidSegment(segment, duration)
         THEN <<trim(subclip(VideoFileClip(duration), segment.start, segment.end))>>
              \o video_clips_abort(Tail(segments), duration)
         ELSE <<>>

\* the list video_clips after the loop over the group's segments
RECURSIVE video_clips(_, _)
video_clips(segments, duration) ==
    IF segments = <<>> THEN <<>>
    ELSE LET segment == Head(segments) IN
         IF ValidSegment(segment, duration)
         THEN <<trim(subclip(VideoFileClip(duration), segment.start, segment.end))>>
              \o video_clips(Tail(segments), duration)
         ELSE video_clips(Tail(segments), duration)

ReelPath(reel_index) ==
    CASE reel_index = 1 -> "uploads/reels/user_reel_1.mp4"
      [] reel_index = 2 -> "uploads/reels/user_reel_2.mp4"
      [] reel_index = 3 -> "uploads/reels/user_reel_3.mp4"

\* create_reel: the path returned (None when the try block raised), and the
\* clips encoded into the file when write_videofile completed
create_reel(segments, duration, reel_index, encoder_ok) ==
    LET clips == video_clips(segments, duration) IN
    IF clips = <<>> \/ ~encoder_ok
    THEN [path |-> None, clips |-> <<>>, written |-> FALSE]
    ELSE [path |-> ReelPath(reel_index), clips |-> clips, written |-> TRUE]

-----------------------------------------------------------------------------
(* Segment grouper (process_video_upload, step 6) *)

segment_count(L) == L \div K

group_segments_absorb(segs, g) ==
    LET start_index == g * segment_count(Len(segs))
        end_index   == IF g = K - 1 THEN Len(segs) ELSE start_index + segment_count(Len(segs))
    IN  PySlice(segs, start_index, end_index)

\* important_segments[start_index:end_index] of loop round g (0-based)
group_segments(segs, g) ==
    LET start_index == g * segment_count(Len(segs))
        end_index   == start_index + segment_count(Len(segs))
    IN  PySlice(segs, start_index, end_index)

should_group_strict(L) == L > K

should_group_nonempty(L) == L >= 1

\* if len(important_segments) >= 3
should_group(L) == L >= K

-----------------------------------------------------------------------------
(* What the external tools can hand to a pipeline run *)

\* boundary k of the transcription's time grid: the first segment lasts 70 s
T(k) == IF k = 0 THEN 0 ELSE CLIP_CAP + 10 * k

PipelineDuration == T(MaxSegs + 1)

SegmentKinds == {"positive", "neutral", "unplayable"}

\* the k-th segment whisper returns: positive and neutral ones lie inside the
\* video, unplayable ones are empty intervals or end after the video does
WhisperSegment(k, kind) ==
    CASE kind = "positive"   -> [start |-> T(k - 1), end |-> T(k), text |-> "great"]
      [] kind = "neutral"    -> [start |-> T(k - 1), end |-> T(k), text |-> ""]
      [] kind = "unplayable" ->
            IF k % 2 = 1
            THEN [start |-> T(k), end |-> T(k), text |-> "nice"]
            ELSE [start |-> T(k - 1), end |-> PipelineDuration + 10, text |-> "nice"]

Transcriptions ==
    {[k \in 1..Len(kinds) |-> WhisperSegment(k, kinds[k])] : kinds \in SeqsUpTo(SegmentKinds, MaxSegs)}

\* Optional[list]: Python's None, or a list
NoneValue == [isNone |-> TRUE]

Some(v) == [isNone |-> FALSE, value |-> v]

segments == IF whisper_result.isNone THEN <<>> ELSE whisper_result.value

TempVideo == "/tmp/tmpvideo.mp4"

DownloadedVideo == "uploads/videos/user/title.mp4"

\* video_dir, created by os.makedirs before the download starts
VideoDir == "uploads/videos/user"

AudioPath == "uploads/audio/user_video.wav"

TranscriptPath == "uploads/transcripts/user_video.txt"

FailureStages == {"input", "download", "extract", "transcribe", "empty"}

\* the value of the early return taken at `stage`: each is `return None, None, []`
ReturnOnFailure(stage) == <<None, None, <<>>>>

FalsyNoneOnly(x) == x.isNone

\* `not segments`
Falsy(x) == IF x.isNone THEN TRUE ELSE x.value = <<>>

-----------------------------------------------------------------------------
(* Text produced by the pipeline *)

RECURSIVE JoinWith(_, _)
JoinWith(sep, strs) ==
    IF strs = <<>> THEN <<>>
    ELSE IF Len(strs) = 1 THEN strs
    ELSE <<Head(strs), sep>> \o JoinWith(sep, Tail(strs))

text_batch_grouped(segs) ==
    JoinWith("\n", [k \in 1..(K * (Len(segs) \div K)) |-> segs[k].text])

\* "\n".join(segment['text'] for segment in segments): the pieces of the string
text_batch(segs) == JoinWith("\n", [k \in 1..Len(segs) |-> segs[k].text])

\* f"{t:.2f}" of a whole number of seconds: its digits before and after the point
Fixed2(t) == [sign |-> IF t < 0 THEN "-" ELSE "", int |-> IF t < 0 THEN -t ELSE t, frac |-> "00"]

\* f"[{start:.2f}s - {end:.2f}s]: {text}\n": the fields of one line
transcript_line(segment) ==
    [start |-> Fixed2(segment.start), end |-> Fixed2(segment.end), text |-> segment.text]

transcript_lines_grouped(transcript) ==
    [k \in 1..(K * (Len(transcript) \div K)) |-> transcript_line(transcript[k])]

\* the lines save_transcript writes, one per segment of `transcript`
transcript_lines(transcript) == [k \in 1..Len(transcript) |-> transcript_line(transcript[k])]

reel_index_fixed(loop_i) == 1

\* the reel_index argument of create_reel: i + 1
reel_index(loop_i) == loop_i + 1

\* the percentages of the simulated transcription progress:
\* int((step + 1) * 100 / total_steps) for step in range(total_steps)
total_steps == 10

simulated_progress == [step \in 1..total_steps |-> (step * 100) \div total_steps]

-----------------------------------------------------------------------------
(* The pipeline run *)

IdleUnit == [fn |-> "none"]

PipelineIdle ==
    /\ pc = "idle"
    /\ video_file = None
    /\ youtube_url = ""
    /\ video_path = None
    /\ files = {}
    /\ whisper_result = NoneValue
    /\ important_segments = <<>>
    /\ motivational_contents = None
    /\ reels_paths = <<>>
    /\ i = 0
    /\ groups = <<>>
    /\ reel_files = [k \in 1..K |-> <<>>]
    /\ transcript_path = None
    /\ transcript_file = <<>>
    /\ result = <<>>
    /\ failed_stage = "none"
    /\ main_exception = None
    /\ trace = <<>>
    /\ progress = <<>>
    /\ render_calls = <<>>
    /\ summary_payload = <<>>

Init == PipelineIdle /\ unit = IdleUnit

\* early return inside process_video_upload: `return None, None, []`
ReturnFailure(stage) ==
    /\ result' = ReturnOnFailure(stage)
    /\ failed_stage' = stage
    /\ pc' = "returned"

\* main(): the Process button is pressed with the form's current inputs
Process ==
    /\ pc = "idle"
    /\ \E vf \in {None, "video.mp4"}, url \in {"", "https://youtu.be/x"} :
          /\ video_file' = vf
          /\ youtube_url' = url
    /\ progress' = <<0>>
    /\ pc' = "acquire"
    /\ UNCHANGED <<video_path, files, whisper_result, important_segments,
                   motivational_contents, reels_paths, i, groups, reel_files,
                   transcript_path, transcript_file, result, failed_stage,
                   main_exception, trace, unit,
                   render_calls, summary_payload>>

\* if youtube_url: download_video_from_youtube
Download ==
    /\ pc = "acquire"
    /\ youtube_url # ""
    /\ trace' = Append(trace, "download")
    /\ \E downloaded \in BOOLEAN :
          IF downloaded
          THEN /\ video_path' = DownloadedVideo
               /\ files' = files \cup {VideoDir, DownloadedVideo}
               /\ pc' = "extract"
               /\ UNCHANGED <<result, failed_stage>>
          ELSE /\ ReturnFailure("download")
               /\ files' = files \cup {VideoDir}
               /\ UNCHANGED video_path
    /\ UNCHANGED <<video_file, youtube_url, whisper_result, important_segments,
                   motivational_contents, reels_paths, i, groups, reel_files,
                   transcript_path, transcript_file, main_exception, unit,
                   progress, render_calls, summary_payload>>

SaveUpload_unguarded ==
    /\ pc = "acquire"
    /\ youtube_url = ""
    /\ trace' = Append(trace, "tempfile")
    /\ video_path' = TempVideo
    /\ files' = files \cup {TempVideo}
    /\ pc' = "extract"
    /\ UNCHANGED <<video_file, youtube_url, whisper_result, important_segments,
                   motivational_contents, reels_paths, i, groups, reel_files,
                   transcript_path, transcript_file, result, failed_stage,
                   main_exception, unit,
                   progress, render_calls, summary_payload>>

\* elif video_file: the upload is written to a NamedTemporaryFile(delete=False)
SaveUpload ==
    /\ pc = "acquire"
    /\ youtube_url = ""
    /\ video_file # None
    /\ trace' = Append(trace, "tempfile")
    /\ video_path' = TempVideo
    /\ files' = files \cup {TempVideo}
    /\ pc' = "extract"
    /\ UNCHANGED <<video_file, youtube_url, whisper_result, important_segments,
                   motivational_contents, reels_paths, i, groups, reel_files,
                   transcript_path, transcript_file, result, failed_stage,
                   main_exception, unit,
                   progress, render_calls, summary_payload>>

\* if not video_path: return None, None, []
NoInput ==
    /\ pc = "acquire"
    /\ youtube_url = ""
    /\ video_file = None
    /\ ReturnFailure("input")
    /\ UNCHANGED <<video_file, youtube_url, video_path, files, whisper_result,
                   important_segments, motivational_contents, reels_paths, i,
                   groups, reel_files, transcript_path, transcript_file,
                   main_exception, trace, unit,
                   progress, render_calls, summary_payload>>

ExtractAudio_unchecked ==
    /\ pc = "extract"
    /\ trace' = Append(trace, "extract_audio")
    /\ \E extracted \in BOOLEAN :
          IF extracted
          THEN /\ files' = files \cup {AudioPath}
               /\ progress' = Append(progress, 20)
               /\ pc' = "simulate"
               /\ UNCHANGED <<result, failed_stage>>
          ELSE /\ progress' = Append(progress, 20)
               /\ pc' = "simulate"
               /\ UNCHANGED <<files, result, failed_stage>>
    /\ UNCHANGED <<video_file, youtube_url, video_path, whisper_result,
                   important_segments, motivational_contents, reels_paths, i,
                   groups, reel_files, transcript_path, transcript_file,
                   main_exception, unit,
                   render_calls, summary_payload>>

\* if not extract_audio_from_video(video_path, audio_path): return None, None, []
ExtractAudio ==
    /\ pc = "extract"
    /\ trace' = Append(trace, "extract_audio")
    /\ \E extracted \in BOOLEAN :
          IF extracted
          THEN /\ files' = files \cup {AudioPath}
               /\ progress' = Append(progress, 20)
               /\ pc' = "simulate"
               /\ UNCHANGED <<result, failed_stage>>
          ELSE /\ ReturnFailure("extract")
               /\ UNCHANGED <<files, progress>>
    /\ UNCHANGED <<video_file, youtube_url, video_path, whisper_result,
                   important_segments, motivational_contents, reels_paths, i,
                   groups, reel_files, transcript_path, transcript_file,
                   main_exception, unit,
                   render_calls, summary_payload>>

\* the loop that precedes the transcription: ten rounds of time.sleep(2) and
\* progress.progress(int((step + 1) * 100 / total_steps))
SimulateProgress ==
    /\ pc = "simulate"
    /\ progress' = progress \o simulated_progress
    /\ pc' = "transcribe"
    /\ UNCHANGED <<video_file, youtube_url, video_path, files, whisper_result,
                   important_segments, motivational_contents, reels_paths, i,
                   groups, reel_files, transcript_path, transcript_file, result,
                   failed_stage, main_exception, trace, render_calls,
                   summary_payload, unit>>

\* segments = transcribe_audio_whisper(...); if not segments: return None, None, []
Transcribe ==
    /\ pc = "transcribe"
    /\ trace' = Append(trace, "transcribe")
    /\ \E r \in {NoneValue} \cup {Some(t) : t \in Transcriptions} :
          /\ whisper_result' = r
          /\ IF Falsy(r)
             THEN ReturnFailure(IF r.isNone THEN "transcribe" ELSE "empty")
             ELSE /\ pc' = "filter"
                  /\ UNCHANGED <<result, failed_stage>>
    /\ UNCHANGED <<video_file, youtube_url, video_path, files, important_segments,
                   motivational_contents, reels_paths, i, groups, reel_files,
                   transcript_path, transcript_file, main_exception, unit,
                   progress, render_calls, summary_payload>>

\* important_segments = analyze_sentiment(segments)
Filter ==
    /\ pc = "filter"
    /\ important_segments' = analyze_sentiment(segments)
    /\ trace' = Append(trace, "analyze_sentiment")
    /\ progress' = Append(progress, 60)
    /\ pc' = "summarize"
    /\ UNCHANGED <<video_file, youtube_url, video_path, files, whisper_result,
                   motivational_contents, reels_paths, i, groups, reel_files,
                   transcript_path, transcript_file, result, failed_stage,
                   main_exception, unit,
                   render_calls, summary_payload>>

Summarize_fatal ==
    /\ pc = "summarize"
    /\ trace' = Append(trace, "summarize")
    /\ summary_payload' = text_batch(important_segments)
    /\ \E response \in {"200", "error_status", "raises"} :
          IF response = "raises"
          THEN /\ main_exception' = "RequestException"
               /\ pc' = "done"
               /\ UNCHANGED <<motivational_contents, progress, result, failed_stage>>
          ELSE IF response = "200"
          THEN /\ motivational_contents' = "summary"
               /\ pc' = IF should_group(Len(important_segments)) THEN "render" ELSE "save"
               /\ progress' = Append(progress, 80)
               /\ UNCHANGED <<main_exception, result, failed_stage>>
          ELSE /\ ReturnFailure("summarize")
               /\ UNCHANGED <<motivational_contents, progress, main_exception>>
    /\ UNCHANGED <<video_file, youtube_url, video_path, files, whisper_result,
                   important_segments, reels_paths, i, groups, reel_files,
                   transcript_path, transcript_file, unit,
                   render_calls>>

\* motivational_contents = create_motivational_reel(important_segments); reels_paths = []
\* requests.post answers 200, answers another status, or raises
Summarize ==
    /\ pc = "summarize"
    /\ trace' = Append(trace, "summarize")
    /\ summary_payload' = text_batch(important_segments)
    /\ \E response \in {"200", "error_status", "raises"} :
          IF response = "raises"
          THEN /\ main_exception' = "RequestException"
               /\ pc' = "done"
               /\ UNCHANGED <<motivational_contents, progress>>
          ELSE /\ motivational_contents' = IF response = "200" THEN "summary" ELSE None
               /\ pc' = IF should_group(Len(important_segments)) THEN "render" ELSE "save"
               /\ progress' = Append(progress, 80)
               /\ UNCHANGED main_exception
    /\ UNCHANGED <<video_file, youtube_url, video_path, files, whisper_result,
                   important_segments, reels_paths, i, groups, reel_files,
                   transcript_path, transcript_file, result, failed_stage, unit,
                   render_calls>>

\* for i in range(3)
render_loop_continues_until_failure(next_i, reel_path) == next_i < K /\ reel_path # None

render_loop_continues(next_i, reel_path) == next_i < K

\* one round of the loop: reel_path = create_reel(group_segments, video_path, username, i + 1)
RenderGroup ==
    /\ pc = "render"
    /\ \E encoder_ok \in BOOLEAN :
          LET group == group_segments(important_segments, i)
              reel  == create_reel(group, PipelineDuration, reel_index(i), encoder_ok)
          IN  /\ groups' = Append(groups, group)
              /\ render_calls' = Append(render_calls, reel_index(i))
              /\ trace' = Append(trace, "create_reel")
              /\ reels_paths' = Append(reels_paths, reel.path)
              /\ IF reel.written
                 THEN /\ reel_files' = [reel_files EXCEPT ![reel_index(i)] = reel.clips]
                      /\ files' = files \cup {reel.path}
                 ELSE UNCHANGED <<reel_files, files>>
              /\ i' = i + 1
              /\ pc' = IF render_loop_continues(i + 1, reel.path) THEN "render" ELSE "save"
    /\ UNCHANGED <<video_file, youtube_url, video_path, whisper_result,
                   important_segments, motivational_contents, transcript_path,
                   transcript_file, result, failed_stage, main_exception, unit,
                   progress, summary_payload>>

SaveTranscript_fatal ==
    /\ pc = "save"
    /\ trace' = Append(trace, "save_transcript")
    /\ \E saved \in BOOLEAN :
          IF saved
          THEN /\ transcript_path' = TranscriptPath
               /\ transcript_file' = transcript_lines(important_segments)
               /\ files' = files \cup {TranscriptPath}
               /\ progress' = Append(progress, 100)
               /\ pc' = "cleanup"
               /\ UNCHANGED <<result, failed_stage>>
          ELSE /\ ReturnFailure("save")
               /\ UNCHANGED <<transcript_path, transcript_file, files, progress>>
    /\ UNCHANGED <<video_file, youtube_url, video_path, whisper_result,
                   important_segments, motivational_contents, reels_paths, i,
                   groups, reel_files, main_exception, unit,
                   render_calls, summary_payload>>

\* transcript_path = save_transcript(important_segments, ...)
SaveTranscript ==
    /\ pc = "save"
    /\ trace' = Append(trace, "save_transcript")
    /\ \E saved \in BOOLEAN :
          IF saved
          THEN /\ transcript_path' = TranscriptPath
               /\ transcript_file' = transcript_lines(important_segments)
               /\ files' = files \cup {TranscriptPath}
          ELSE /\ transcript_path' = None
               /\ UNCHANGED <<transcript_file, files>>
    /\ progress' = Append(progress, 100)
    /\ pc' = "cleanup"
    /\ UNCHANGED <<video_file, youtube_url, video_path, whisper_result,
                   important_segments, motivational_contents, reels_paths, i,
                   groups, reel_files, result, failed_stage, main_exception, unit,
                   render_calls, summary_payload>>

CleanupAndReturn_before_save ==
    /\ pc \in {"save", "cleanup"}
    /\ trace' = Append(trace, "unlink")
    /\ files' = files \ {video_path}
    /\ result' = <<motivational_contents, transcript_path, reels_paths, important_segments>>
    /\ pc' = "returned"
    /\ UNCHANGED <<video_file, youtube_url, video_path, whisper_result,
                   important_segments, motivational_contents, reels_paths, i,
                   groups, reel_files, transcript_path, transcript_file,
                   failed_stage, main_exception, unit,
                   progress, render_calls, summary_payload>>

\* os.unlink(video_path); return motivational_contents, transcript_path, reels_paths, important_segments
CleanupAndReturn ==
    /\ pc = "cleanup"
    /\ trace' = Append(trace, "unlink")
    /\ files' = files \ {video_path}
    /\ result' = <<motivational_contents, transcript_path, reels_paths, important_segments>>
    /\ pc' = "returned"
    /\ UNCHANGED <<video_file, youtube_url, video_path, whisper_result,
                   important_segments, motivational_contents, reels_paths, i,
                   groups, reel_files, transcript_path, transcript_file,
                   failed_stage, main_exception, unit,
                   progress, render_calls, summary_payload>>

\* main(): a, b, c, d = process_video_upload(...) unpacks exactly four values
Unpack ==
    /\ pc = "returned"
    /\ main_exception' = IF Len(result) = 4 THEN None ELSE "ValueError"
    /\ pc' = "done"
    /\ UNCHANGED <<video_file, youtube_url, video_path, files, whisper_result,
                   important_segments, motivational_contents, reels_paths, i,
                   groups, reel_files, transcript_path, transcript_file, result,
                   failed_stage, trace, unit,
                   progress, render_calls, summary_payload>>

Next ==
    \/ Process
    \/ Download
    \/ SaveUpload
    \/ NoInput
    \/ ExtractAudio
    \/ SimulateProgress
    \/ Transcribe
    \/ Filter
    \/ Summarize
    \/ RenderGroup
    \/ SaveTranscript
    \/ CleanupAndReturn
    \/ Unpack

Spec == Init /\ [][Next]_vars

-----------------------------------------------------------------------------
(* analyze_sentiment called on its own, twice in a row *)

FilterInputs ==
    {[k \in 1..Len(ts) |-> [start |-> 10 * (k - 1), end |-> 10 * k, text |-> ts[k]]] :
        ts \in SeqsUpTo(Texts, MaxFilterLen)}

InitFilter ==
    /\ PipelineIdle
    /\ unit \in {[fn |-> "analyze_sentiment", input |-> S, arg |-> S, ret |-> <<>>, calls |-> 0] :
                    S \in FilterInputs}

\* ret = analyze_sentiment(arg)
CallFilter ==
    /\ unit.fn = "analyze_sentiment"
    /\ unit.calls = 0
    /\ unit' = [unit EXCEPT !.ret = analyze_sentiment(unit.arg), !.calls = 1]
    /\ UNCHANGED <<pc, video_file, youtube_url, video_path, files, whisper_result,
                   important_segments, motivational_contents, reels_paths, i, groups,
                   reel_files, transcript_path, transcript_file, result, failed_stage,
                   main_exception, trace,
                   progress, render_calls, summary_payload>>

\* the list returned is filtered again
CallFilterAgain ==
    /\ unit.fn = "analyze_sentiment"
    /\ unit.calls = 1
    /\ unit' = [unit EXCEPT !.arg = unit.ret, !.ret = analyze_sentiment(unit.ret), !.calls = 2]
    /\ UNCHANGED <<pc, video_file, youtube_url, video_path, files, whisper_result,
                   important_segments, motivational_contents, reels_paths, i, groups,
                   reel_files, transcript_path, transcript_file, result, failed_stage,
                   main_exception, trace,
                   progress, render_calls, summary_payload>>

NextFilter ==
    \/ CallFilter
    \/ CallFilterAgain

SpecFilter == InitFilter /\ [][NextFilter]_vars

-----------------------------------------------------------------------------
(* create_reel called on its own *)

ReelDurations == {100, 130}

\* (start, end) of the segments of a group: inside the video, longer than the
\* cap, empty, reversed, negative, past the end of the shorter video
ReelTimes ==
    {<<0, 30>>, <<0, 60>>, <<30, 100>>, <<30, 130>>, <<30, 30>>, <<100, 30>>, <<-5, 30>>, <<100, 130>>}

ReelGroups ==
    {[k \in 1..Len(ts) |-> [start |-> ts[k][1], end |-> ts[k][2], text |-> "great"]] :
        ts \in SeqsUpTo(ReelTimes, MaxGroupLen)}

InitReel ==
    /\ PipelineIdle
    /\ unit \in {[fn |-> "create_reel", segments |-> g, duration |-> d, reel_index |-> 1,
                  encoder_ok |-> FALSE, returned |-> FALSE,
                  ret |-> [path |-> None, clips |-> <<>>, written |-> FALSE]] :
                    g \in ReelGroups, d \in ReelDurations}

\* ret = create_reel(segments, video_path, username, reel_index)
CallCreateReel ==
    /\ unit.fn = "create_reel"
    /\ ~unit.returned
    /\ \E encoder_ok \in BOOLEAN :
          unit' = [unit EXCEPT
                     !.encoder_ok = encoder_ok,
                     !.returned = TRUE,
                     !.ret = create_reel(unit.segments, unit.duration, unit.reel_index, encoder_ok)]
    /\ UNCHANGED <<pc, video_file, youtube_url, video_path, files, whisper_result,
                   important_segments, motivational_contents, reels_paths, i, groups,
                   reel_files, transcript_path, transcript_file, result, failed_stage,
                   main_exception, trace,
                   progress, render_calls, summary_payload>>

NextReel == CallCreateReel

SpecReel == InitReel /\ [][NextReel]_vars

-----------------------------------------------------------------------------
(* transcribe_audio_whisper called on its own, with any selector value *)

\* the dictionary of the four languages the selector offers
language_codes ==
    [language \in {"English", "Hindi", "Tamil", "Malayalam"} |->
        CASE language = "English"   -> "en"
          [] language = "Hindi"     -> "hi"
          [] language = "Tamil"     -> "ta"
          [] language = "Malayalam" -> "ml"]

\* selector values: the four offered ones and values the dictionary lacks
Languages == DOMAIN language_codes \cup {"French", "english", ""}

\* language_codes.get(language, language): the selector itself when unknown
language_code_raw(language) ==
    IF language \in DOMAIN language_codes THEN language_codes[language] ELSE language

\* language_codes.get(language, "en")
language_code(language) ==
    IF language \in DOMAIN language_codes THEN language_codes[language] ELSE "en"

\* the codes whisper is given by this program; any other string is refused
WhisperLanguages == {"en", "hi", "ta", "ml"}

\* whisper_model.transcribe(audio_path, language=code)["segments"]: the model's
\* own outcome (a segment list, or NoneValue when it raises), unless the code is
\* not a language it knows
whisper_transcribe(code, outcome) ==
    IF code \in WhisperLanguages THEN outcome ELSE NoneValue

\* the except branch turns an exception into None
transcribe_audio_whisper(language, outcome) ==
    [code |-> language_code(language),
     ret  |-> whisper_transcribe(language_code(language), outcome)]

InitLanguage ==
    /\ PipelineIdle
    /\ unit \in {[fn |-> "transcribe_audio_whisper", language |-> l, outcome |-> o,
                  returned |-> FALSE, code |-> None, ret |-> NoneValue] :
                    l \in Languages, o \in {NoneValue} \cup {Some(t) : t \in Transcriptions}}

\* ret = transcribe_audio_whisper(audio_path, language)
CallTranscribe ==
    /\ unit.fn = "transcribe_audio_whisper"
    /\ ~unit.returned
    /\ LET r == transcribe_audio_whisper(unit.language, unit.outcome)
       IN  unit' = [unit EXCEPT !.returned = TRUE, !.code = r.code, !.ret = r.ret]
    /\ UNCHANGED <<pc, video_file, youtube_url, video_path, files, whisper_result,
                   important_segments, motivational_contents, reels_paths, i, groups,
                   reel_files, transcript_path, transcript_file, result, failed_stage,
                   main_exception, trace,
                   progress, render_calls, summary_payload>>

NextLanguage == CallTranscribe

SpecLanguage == InitLanguage /\ [][NextLanguage]_vars

-----------------------------------------------------------------------------
(* The render loop of successive runs of one user, each on another video *)

MaxRuns == 2

Videos == {"a.mp4", "b.mp4", "c.mp4"}

\* the retained segments of a run that reaches the render loop: three
\* segments, each one either inside the video or an empty interval
RunSegments ==
    {[k \in 1..K |-> [start |-> IF ok[k] THEN 10 * (k - 1) ELSE 10 * k, end |-> 10 * k, text |-> "great"]] :
        ok \in [1..K -> BOOLEAN]}

\* no file at a reel path
NoFile == [video |-> None, clips |-> <<>>]

InitRuns ==
    /\ PipelineIdle
    /\ unit \in {[fn |-> "reel_runs", run |-> 1, i |-> 0, video |-> v, segments |-> segs,
                  disk |-> [k \in 1..K |-> NoFile], writes |-> [k \in 1..K |-> 0]] :
                    v \in Videos, segs \in RunSegments}

\* one round of `for i in range(3)`: write_videofile(reel_path) replaces
\* whatever file is at uploads/reels/<username>_reel_<i + 1>.mp4
RenderRound ==
    /\ unit.fn = "reel_runs"
    /\ unit.i < K
    /\ \E encoder_ok \in BOOLEAN :
          LET k    == reel_index(unit.i)
              reel == create_reel(group_segments(unit.segments, unit.i), PipelineDuration, k, encoder_ok)
          IN  unit' = [unit EXCEPT
                         !.i = unit.i + 1,
                         !.disk[k] = IF reel.written
                                     THEN [video |-> unit.video, clips |-> reel.clips]
                                     ELSE @,
                         !.writes[k] = IF reel.written THEN @ + 1 ELSE @]
    /\ UNCHANGED <<pc, video_file, youtube_url, video_path, files, whisper_result,
                   important_segments, motivational_contents, reels_paths, i, groups,
                   reel_files, transcript_path, transcript_file, result, failed_stage,
                   main_exception, trace,
                   progress, render_calls, summary_payload>>

\* the same user presses Process again, with another video
ProcessAgain ==
    /\ unit.fn = "reel_runs"
    /\ unit.i = K
    /\ unit.run < MaxRuns
    /\ \E v \in Videos \ {unit.video}, segs \in RunSegments :
          unit' = [unit EXCEPT !.run = unit.run + 1, !.i = 0, !.video = v, !.segments = segs]
    /\ UNCHANGED <<pc, video_file, youtube_url, video_path, files, whisper_result,
                   important_segments, motivational_contents, reels_paths, i, groups,
                   reel_files, transcript_path, transcript_file, result, failed_stage,
                   main_exception, trace,
                   progress, render_calls, summary_payload>>

NextRuns ==
    \/ RenderRound
    \/ ProcessAgain

SpecRuns == InitRuns /\ [][NextRuns]_vars

-----------------------------------------------------------------------------
(* Sessions of the application, each running main() on the shared whisper_model *)

Sessions == {"s1", "s2"}

\* what a call of transcribe_audio_whisper can return to a session
SessionOutcomes ==
    {NoneValue, Some(<<>>), Some(<<WhisperSegment(1, "positive")>>)}

InitSessions ==
    /\ PipelineIdle
    /\ unit \in {[fn |-> "sessions", at |-> [s \in Sessions |-> "before"], language |-> l,
                  ret |-> [s \in Sessions |-> NoneValue]] :
                    l \in [Sessions -> Languages]}

\* a session reaches whisper_model.transcribe: nothing is tested or acquired
EnterTranscribe(s) ==
    /\ unit.fn = "sessions"
    /\ unit.at[s] = "before"
    /\ unit' = [unit EXCEPT !.at[s] = "transcribing"]
    /\ UNCHANGED <<pc, video_file, youtube_url, video_path, files, whisper_result,
                   important_segments, motivational_contents, reels_paths, i, groups,
                   reel_files, transcript_path, transcript_file, result, failed_stage,
                   main_exception, trace,
                   progress, render_calls, summary_payload>>

\* the call of a session returns
LeaveTranscribe(s) ==
    /\ unit.fn = "sessions"
    /\ unit.at[s] = "transcribing"
    /\ \E outcome \in SessionOutcomes :
          unit' = [unit EXCEPT
                     !.at[s] = "after",
                     !.ret[s] = transcribe_audio_whisper(unit.language[s], outcome).ret]
    /\ UNCHANGED <<pc, video_file, youtube_url, video_path, files, whisper_result,
                   important_segments, motivational_contents, reels_paths, i, groups,
                   reel_files, transcript_path, transcript_file, result, failed_stage,
                   main_exception, trace,
                   progress, render_calls, summary_payload>>

NextSessions ==
    \/ \E s \in Sessions : EnterTranscribe(s)
    \/ \E s \in Sessions : LeaveTranscribe(s)

SpecSessions == InitSessions /\ [][NextSessions]_vars

-----------------------------------------------------------------------------
(* main() of sub.py: menu, login, logout and the Process button of a session *)

MaxStarted == 2

\* the rows of the users table, by the (email, password) pair that selects them
UsersTable ==
    [cred \in {"amy@x.io/Pw1!", "bob@x.io/Pw2!"} |->
        IF cred = "amy@x.io/Pw1!" THEN "@amy" ELSE "@bob"]

\* what can be typed into the login form
Credentials == DOMAIN UsersTable \cup {"amy@x.io/wrong"}

\* verify_user: the row selected, None when there is none or the database fails
verify_user(cred, db_up) ==
    IF db_up /\ cred \in DOMAIN UsersTable THEN UsersTable[cred] ELSE None

\* menu = [...]; if is_authenticated: menu.append("Logout")
Menu(is_authenticated) ==
    {"Home", "Login", "Register", "User Profile", "Process Video"}
        \cup (IF is_authenticated THEN {"Logout"} ELSE {})

InitMain ==
    /\ PipelineIdle
    /\ unit = [fn |-> "main", is_authenticated |-> FALSE, user_data |-> None,
               choice |-> "Home", exception |-> None,
               verified |-> None, started |-> <<>>]

\* a script run after another entry of the sidebar menu was selected; the User
\* Profile page reads the local user_data, bound only when authenticated
SelectMenu(c) ==
    /\ unit.fn = "main"
    /\ c \in Menu(unit.is_authenticated)
    /\ c # unit.choice
    /\ unit' = [unit EXCEPT
                  !.choice = c,
                  !.exception = IF c = "User Profile" /\ ~unit.is_authenticated
                                THEN "UnboundLocalError" ELSE None]
    /\ UNCHANGED <<pc, video_file, youtube_url, video_path, files, whisper_result,
                   important_segments, motivational_contents, reels_paths, i, groups,
                   reel_files, transcript_path, transcript_file, result, failed_stage,
                   main_exception, trace,
                   progress, render_calls, summary_payload>>

\* the Login button
Login(cred, db_up) ==
    /\ unit.fn = "main"
    /\ unit.choice = "Login"
    /\ LET user == verify_user(cred, db_up) IN
       unit' = IF user # None
               THEN [unit EXCEPT !.is_authenticated = TRUE, !.user_data = user,
                                 !.verified = user, !.exception = None]
               ELSE [unit EXCEPT !.exception = None]
    /\ UNCHANGED <<pc, video_file, youtube_url, video_path, files, whisper_result,
                   important_segments, motivational_contents, reels_paths, i, groups,
                   reel_files, transcript_path, transcript_file, result, failed_stage,
                   main_exception, trace,
                   progress, render_calls, summary_payload>>

PressProcess_ungated ==
    /\ unit.fn = "main"
    /\ unit.choice = "Process Video"
    /\ Len(unit.started) < MaxStarted
    /\ unit' = [unit EXCEPT
                  !.started = Append(@, [username |-> unit.user_data,
                                         authenticated |-> unit.is_authenticated,
                                         verified |-> unit.verified]),
                  !.exception = None]
    /\ UNCHANGED <<pc, video_file, youtube_url, video_path, files, whisper_result,
                   important_segments, motivational_contents, reels_paths, i, groups,
                   reel_files, transcript_path, transcript_file, result, failed_stage,
                   main_exception, trace,
                   progress, render_calls, summary_payload>>

\* elif choice == "Process Video" and is_authenticated: the Process button
\* calls process_video_upload with username = user_data[9]
PressProcess ==
    /\ unit.fn = "main"
    /\ unit.choice = "Process Video"
    /\ unit.is_authenticated
    /\ Len(unit.started) < MaxStarted
    /\ unit' = [unit EXCEPT
                  !.started = Append(@, [username |-> unit.user_data,
                                         authenticated |-> unit.is_authenticated,
                                         verified |-> unit.verified]),
                  !.exception = None]
    /\ UNCHANGED <<pc, video_file, youtube_url, video_path, files, whisper_result,
                   important_segments, motivational_contents, reels_paths, i, groups,
                   reel_files, transcript_path, transcript_file, result, failed_stage,
                   main_exception, trace,
                   progress, render_calls, summary_payload>>

\* elif choice == "Logout", with "Yes" picked: logout() and the two assignments
ConfirmLogout ==
    /\ unit.fn = "main"
    /\ unit.choice = "Logout"
    /\ unit.choice \in Menu(unit.is_authenticated)
    /\ unit' = [unit EXCEPT !.is_authenticated = FALSE, !.user_data = None,
                            !.verified = None, !.exception = None]
    /\ UNCHANGED <<pc, video_file, youtube_url, video_path, files, whisper_result,
                   important_segments, motivational_contents, reels_paths, i, groups,
                   reel_files, transcript_path, transcript_file, result, failed_stage,
                   main_exception, trace,
                   progress, render_calls, summary_payload>>

NextMain ==
    \/ \E c \in Menu(TRUE) : SelectMenu(c)
    \/ \E cred \in Credentials, db_up \in BOOLEAN : Login(cred, db_up)
    \/ PressProcess
    \/ ConfirmLogout

SpecMain == InitMain /\ [][NextMain]_vars

-----------------------------------------------------------------------------
(* app.py: the pages of a session and the users table *)

\* what is typed into the email and password fields
Emails == {"amy@x.io", "bob@x.io", "amy-at-x"}

Passwords == {"Str0ng!pw", "weak"}

\* re.match(r"^[\w\.-]+@[\w\.-]+\.\w+$", email) is not None
is_valid_email(email) ==
    CASE email = "amy@x.io" -> TRUE
      [] email = "bob@x.io" -> TRUE
      [] email = "amy-at-x" -> FALSE

\* at least 8 characters, a digit, a lower-case and an upper-case letter and a
\* punctuation character
is_strong_password(password) ==
    CASE password = "Str0ng!pw" -> TRUE
      [] password = "weak"      -> FALSE

\* app.py's delete_all_users: DELETE FROM users, nothing when the connection fails
delete_all_users(users, db_up) == IF db_up THEN {} ELSE users

\* app.py's register_user: the table after the INSERT, and the value returned
app_register_user(users, email, password, db_up) ==
    IF db_up
    THEN [users |-> users \cup {[email |-> email, password |-> password]}, ok |-> TRUE]
    ELSE [users |-> users, ok |-> FALSE]

\* app.py's verify_user: is a row selected by (email, password)
app_verify_user(users, email, password, db_up) ==
    db_up /\ [email |-> email, password |-> password] \in users

InitApp ==
    /\ PipelineIdle
    /\ unit = [fn |-> "app", page |-> "login", logged_in |-> FALSE, email |-> "",
               users |-> {},
               last |-> [op |-> "start", email |-> "", password |-> "", confirm |-> "",
                         users_before |-> {}]]

AppLogin_unverified(email, password, db_up) ==
    /\ unit.fn = "app"
    /\ unit.page = "login"
    /\ unit' = [unit EXCEPT
                  !.logged_in = @ \/ app_verify_user(unit.users, email, password, db_up),
                  !.email = email,
                  !.page = "profile",
                  !.last = [op |-> "login", email |-> email, password |-> password,
                            confirm |-> "", users_before |-> unit.users]]
    /\ UNCHANGED <<pc, video_file, youtube_url, video_path, files, whisper_result,
                   important_segments, motivational_contents, reels_paths, i, groups,
                   reel_files, transcript_path, transcript_file, result, failed_stage,
                   main_exception, trace,
                   progress, render_calls, summary_payload>>

\* login page, the Login button
AppLogin(email, password, db_up) ==
    /\ unit.fn = "app"
    /\ unit.page = "login"
    /\ LET last == [op |-> "login", email |-> email, password |-> password,
                    confirm |-> "", users_before |-> unit.users]
       IN  unit' = IF app_verify_user(unit.users, email, password, db_up)
                   THEN [unit EXCEPT !.logged_in = TRUE, !.email = email,
                                     !.page = "profile", !.last = last]
                   ELSE [unit EXCEPT !.last = last]
    /\ UNCHANGED <<pc, video_file, youtube_url, video_path, files, whisper_result,
                   important_segments, motivational_contents, reels_paths, i, groups,
                   reel_files, transcript_path, transcript_file, result, failed_stage,
                   main_exception, trace,
                   progress, render_calls, summary_payload>>

\* a button that only assigns st.session_state.page: Register on the login
\* page, Back to Login, Upload MP4 Video, Back to Profile
PageButton(from, to) ==
    /\ unit.fn = "app"
    /\ unit.page = from
    /\ unit' = [unit EXCEPT
                  !.page = to,
                  !.last = [op |-> "button", email |-> "", password |-> "", confirm |-> "",
                            users_before |-> unit.users]]
    /\ UNCHANGED <<pc, video_file, youtube_url, video_path, files, whisper_result,
                   important_segments, motivational_contents, reels_paths, i, groups,
                   reel_files, transcript_path, transcript_file, result, failed_stage,
                   main_exception, trace,
                   progress, render_calls, summary_payload>>

\* register page, the Register button: delete_all_users() comes first, then
\* the checks, then register_user
AppRegister(email, password, confirm, db_up_delete, db_up_insert) ==
    /\ unit.fn = "app"
    /\ unit.page = "register"
    /\ LET emptied == delete_all_users(unit.users, db_up_delete)
           last    == [op |-> "register", email |-> email, password |-> password,
                       confirm |-> confirm, users_before |-> unit.users]
           reg     == app_register_user(emptied, email, password, db_up_insert)
       IN  unit' =
             IF ~is_valid_email(email) THEN [unit EXCEPT !.users = emptied, !.last = last]
             ELSE IF ~is_strong_password(password) THEN [unit EXCEPT !.users = emptied, !.last = last]
             ELSE IF password # confirm THEN [unit EXCEPT !.users = emptied, !.last = last]
             ELSE [unit EXCEPT !.users = reg.users,
                               !.page = IF reg.ok THEN "login" ELSE @,
                               !.last = last]
    /\ UNCHANGED <<pc, video_file, youtube_url, video_path, files, whisper_result,
                   important_segments, motivational_contents, reels_paths, i, groups,
                   reel_files, transcript_path, transcript_file, result, failed_stage,
                   main_exception, trace,
                   progress, render_calls, summary_payload>>

NextApp ==
    \/ \E email \in Emails, password \in Passwords, db_up \in BOOLEAN :
          AppLogin(email, password, db_up)
    \/ PageButton("login", "register")
    \/ PageButton("register", "login")
    \/ PageButton("profile", "upload_video")
    \/ PageButton("upload_video", "profile")
    \/ \E email \in Emails, password \in Passwords, confirm \in Passwords,
          db_up_delete \in BOOLEAN, db_up_insert \in BOOLEAN :
          AppRegister(email, password, confirm, db_up_delete, db_up_insert)

SpecApp == InitApp /\ [][NextApp]_vars

-----------------------------------------------------------------------------
(* Properties *)

Range(s) == {s[k] : k \in 1..Len(s)}

Count(s, x) == Cardinality({k \in 1..Len(s) : s[k] = x})

\* the m-th smallest element of a set of indices
Nth(S, m) == CHOOSE k \in S : Cardinality({j \in S : j < k}) = m - 1

\* process_video_upload has returned, or an exception has left it
RunOver == pc \in {"returned", "done"}

\* the run went past the grouping step (step 6)
GroupingDone == pc \in {"save", "cleanup"} \/ (RunOver /\ Len(result) = 4)

\* the validity check of create_reel, as the specification words it
Playable(segment, duration) ==
    /\ 0 <= segment.start /\ segment.start < duration
    /\ 0 < segment.end /\ segment.end <= duration
    /\ segment.start < segment.end

\* C1: for a retained list of length L, L < 3 forms no group and never calls
\* create_reel; L >= 3 forms exactly 3 groups of length L // 3 each, and exactly
\* L - 3*(L//3) retained segments belong to no group.
C1_GroupCount ==
    LET L == Len(important_segments) IN
    /\ L < 3 => groups = <<>> /\ "create_reel" \notin Range(trace)
    /\ Count(trace, "create_reel") = Len(groups)
    /\ (GroupingDone /\ L >= 3) =>
          /\ Len(groups) = 3
          /\ \A g \in 1..3 : Len(groups[g]) = L \div 3
          /\ Cardinality({j \in 1..L : \A g \in 1..3 : important_segments[j] \notin Range(groups[g])})
                = L - 3 * (L \div 3)
    /\ (GroupingDone /\ L < 3) => groups = <<>>

C1_Witness ==
    /\ pc = "done"
    /\ Len(important_segments) = 4
    /\ Len(groups) = 3
    /\ \A g \in 1..3 : Len(groups[g]) = 1
    /\ important_segments[4] \notin UNION {Range(groups[g]) : g \in 1..3}

\* C2: with n = L // 3, group i (0-based) is the contiguous slice
\* important_segments[i*n : (i+1)*n] of the filtered list, never of the raw
\* transcription; the groups are position-disjoint, their concatenation is
\* important_segments[0 : 3n], and the tail important_segments[3n:] is dropped.
C2_GroupSlices ==
    LET L == Len(important_segments)
        n == L \div 3
    IN  /\ \A g \in 1..Len(groups) :
              /\ groups[g] = [m \in 1..n |-> important_segments[(g - 1) * n + m]]
              /\ \A m \in 1..Len(groups[g]) : Compound(groups[g][m].text) > 5
        /\ (GroupingDone /\ L >= 3) =>
              /\ Concat(groups) = SubSeq(important_segments, 1, 3 * n)
              /\ \A g, h \in 1..3 : g # h => Range(groups[g]) \cap Range(groups[h]) = {}
              /\ \A j \in (3 * n + 1)..L : important_segments[j] \notin Range(Concat(groups))

C2_Witness ==
    /\ pc = "save"
    /\ Len(segments) = 6
    /\ Len(important_segments) = 5
    /\ segments[1] \notin Range(important_segments)
    /\ Len(groups) = 3
    /\ groups[3] = <<important_segments[3]>>

\* C3: analyze_sentiment returns exactly the segments of its input whose compound
\* score is strictly greater than 0.05, in their original order, adding,
\* duplicating and altering none; a score of exactly 0.05 or of 0 is dropped.
C3_FilterExact ==
    (unit.fn = "analyze_sentiment" /\ unit.calls = 1) =>
        LET kept == {k \in 1..Len(unit.input) : Compound(unit.input[k].text) > 5} IN
        /\ Len(unit.ret) = Cardinality(kept)
        /\ \A m \in 1..Len(unit.ret) : unit.ret[m] = unit.input[Nth(kept, m)]
        /\ \A m \in 1..Len(unit.ret) : Compound(unit.ret[m].text) \notin {0, 5}

C3_Witness ==
    /\ unit.fn = "analyze_sentiment"
    /\ unit.calls = 1
    /\ Len(unit.input) = 4
    /\ unit.input[1].text = "fine"
    /\ unit.input[2].text = "great"
    /\ unit.input[3].text = ""
    /\ unit.input[4].text = "nice"
    /\ unit.ret = <<unit.input[2], unit.input[4]>>

\* C4: the filter is idempotent: filtering the list it returned gives that list
\* again, and a list whose scores are all above the threshold is returned as is.
C4_FilterIdempotent ==
    /\ (unit.fn = "analyze_sentiment" /\ unit.calls = 2) => unit.ret = unit.arg
    /\ (unit.fn = "analyze_sentiment" /\ unit.calls = 1
          /\ \A k \in 1..Len(unit.input) : Compound(unit.input[k].text) > 5) =>
            unit.ret = unit.input

C4_Witness ==
    /\ unit.fn = "analyze_sentiment"
    /\ unit.calls = 2
    /\ Len(unit.input) = 4
    /\ Len(unit.arg) = 2
    /\ unit.ret = unit.arg

\* C5: after any run that acquired a video, successful or failed at whatever
\* stage, the temporary video file and the extracted audio file no longer
\* exist, and the cleanup ran exactly once.
C5_CleanupInvariant ==
    (RunOver /\ video_path # None) =>
        /\ video_path \notin files
        /\ AudioPath \notin files
        /\ Count(trace, "unlink") = 1

RunFailed ==
    \/ failed_stage # "none"
    \/ /\ "transcribe" \in Range(trace)
       /\ IF whisper_result.isNone THEN TRUE ELSE whisper_result.value = <<>>

C7_StructuredOutcome ==
    /\ RunOver /\ main_exception # "RequestException" => Len(result) = 4
    /\ main_exception = None

\* C8: every clip of the render list covers [start, min(end, start + 60)] of an
\* accepted segment (start, end), so no clip lasts more than 60 seconds; the cap
\* bounds each clip, not the reel.
C8_ClipCap ==
    (unit.fn = "create_reel" /\ unit.returned) =>
        LET valid == {k \in 1..Len(unit.segments) : Playable(unit.segments[k], unit.duration)} IN
        \A m \in 1..Len(unit.ret.clips) :
            LET clip    == unit.ret.clips[m]
                segment == unit.segments[Nth(valid, m)]
            IN  /\ clip.from = segment.start
                /\ clip.to = Min(segment.end, segment.start + 60)
                /\ clip.to - clip.from <= 60

C8_Witness ==
    /\ unit.fn = "create_reel"
    /\ unit.returned
    /\ unit.ret.written
    /\ unit.segments[1] = [start |-> 30, end |-> 130, text |-> "great"]
    /\ unit.ret.clips[1] = [from |-> 30, to |-> 90]
    /\ Len(unit.ret.clips) = 3
    /\ SumSeq([m \in 1..3 |-> unit.ret.clips[m].to - unit.ret.clips[m].from]) > 60

\* C9: the clips rendered for a group are exactly its segments with
\* 0 <= start < duration, 0 < end <= duration and start < end, in their original
\* order; a segment failing the check is skipped and the render goes on.
C9_InvalidSkipped ==
    (unit.fn = "create_reel" /\ unit.returned) =>
        LET valid == {k \in 1..Len(unit.segments) : Playable(unit.segments[k], unit.duration)} IN
        /\ (unit.encoder_ok /\ valid # {}) <=> unit.ret.written
        /\ unit.ret.written =>
              /\ unit.ret.path # None
              /\ Len(unit.ret.clips) = Cardinality(valid)
              /\ \A m \in 1..Len(unit.ret.clips) :
                    /\ unit.ret.clips[m].from = unit.segments[Nth(valid, m)].start
                    /\ unit.ret.clips[m].to <= unit.segments[Nth(valid, m)].end
        /\ ~unit.ret.written => unit.ret.clips = <<>> /\ unit.ret.path = None

C9_Witness ==
    /\ unit.fn = "create_reel"
    /\ unit.returned
    /\ unit.duration = 100
    /\ Len(unit.segments) = 3
    /\ unit.segments[1].start = 0 /\ unit.segments[1].end = 30
    /\ unit.segments[2].start >= unit.segments[2].end
    /\ unit.segments[3].start = 30 /\ unit.segments[3].end = 100
    /\ unit.ret.written
    /\ unit.ret.clips = <<[from |-> 0, to |-> 30], [from |-> 30, to |-> 90]>>

\* C10: for a group whose segments all fail validation create_reel reports a
\* failure and writes no reel file, and the run goes on: all three groups are
\* attempted and the transcript is still written.
C10_ZeroValidNotFatal ==
    /\ \A g \in 1..Len(groups) :
          (\A m \in 1..Len(groups[g]) : ~Playable(groups[g][m], PipelineDuration)) =>
              /\ reels_paths[g] = None
              /\ reel_files[g] = <<>>
              /\ ReelPath(g) \notin files
    /\ Len(reels_paths) = Len(groups)
    /\ (pc \in {"save", "cleanup"} /\ Len(important_segments) >= 3) => Len(groups) = 3
    /\ pc = "cleanup" => trace[Len(trace)] = "save_transcript"
    /\ (RunOver /\ ~RunFailed /\ main_exception # "RequestException") =>
          /\ Len(result) = 4
          /\ Len(result[3]) = IF Len(important_segments) >= 3 THEN 3 ELSE 0
          /\ "save_transcript" \in Range(trace)

C10_Witness ==
    /\ pc = "done"
    /\ main_exception = None
    /\ Len(groups) = 3
    /\ Len(groups[1]) = 2
    /\ \A m \in 1..2 : ~Playable(groups[1][m], PipelineDuration)
    /\ result[3][1] = None
    /\ result[3][2] = ReelPath(2)
    /\ result[3][3] = ReelPath(3)
    /\ files \cap {ReelPath(1), ReelPath(2), ReelPath(3)} = {ReelPath(2), ReelPath(3)}
    /\ Len(transcript_file) = Len(important_segments)
    /\ TranscriptPath \in files

\* C11: after a fatal failure at download, audio extraction or transcription
\* (failed or empty) the run performs no operation of a later stage: no
\* transcription after a failed extraction; no filtering, summarization call,
\* render or transcript write after a failed or empty transcription.
C11_HaltAfterFatal ==
    LET done == Range(trace) IN
    /\ ("download" \in done /\ video_path = None) =>
          /\ trace = <<"download">>
          /\ RunOver
    /\ ("extract_audio" \in done /\ AudioPath \notin files) =>
          /\ trace[Len(trace)] = "extract_audio"
          /\ "transcribe" \notin done
          /\ whisper_result = NoneValue
          /\ RunOver
    /\ ("transcribe" \in done /\ (IF whisper_result.isNone THEN TRUE ELSE whisper_result.value = <<>>)) =>
          /\ trace[Len(trace)] = "transcribe"
          /\ RunOver
    /\ RunFailed =>
          /\ done \cap {"analyze_sentiment", "summarize", "create_reel", "save_transcript"} = {}
          /\ important_segments = <<>> /\ summary_payload = <<>>
          /\ groups = <<>> /\ render_calls = <<>> /\ reels_paths = <<>>
          /\ transcript_file = <<>> /\ transcript_path = None
          /\ files \cap ({TranscriptPath} \cup {ReelPath(k) : k \in 1..3}) = {}

C11_Witness ==
    /\ pc = "done"
    /\ failed_stage = "extract"
    /\ trace = <<"tempfile", "extract_audio">>
    /\ files = {TempVideo}
    /\ whisper_result = NoneValue
    /\ progress = <<0>>

\* C12: with neither an uploaded video nor a URL the run short-circuits with a
\* failure before any cost: no download, temporary file, audio extraction,
\* transcription, summarization call, render or transcript write happens, and
\* no file or directory is created or deleted.
C12_NoInputNoCost ==
    (pc # "idle" /\ video_file = None /\ youtube_url = "") =>
        /\ pc \in {"acquire", "returned", "done"}
        /\ trace = <<>>
        /\ files = {}
        /\ video_path = None
        /\ whisper_result = NoneValue
        /\ summary_payload = <<>> /\ render_calls = <<>> /\ transcript_file = <<>>
        /\ progress = <<0>>
        /\ RunOver => result = <<None, None, <<>>>> /\ failed_stage = "input"

C12_Witness ==
    /\ pc = "returned"
    /\ video_file = None
    /\ youtube_url = ""
    /\ failed_stage = "input"
    /\ files = {}
    /\ trace = <<>>

\* C13: the transcript a run writes holds exactly one line per retained segment,
\* in original order, the segments excluded from every reel included: its line
\* count is the filtered count L.
C13_TranscriptLines ==
    /\ TranscriptPath \in files <=> transcript_path = TranscriptPath
    /\ TranscriptPath \in files =>
          /\ Len(transcript_file) = Len(important_segments)
          /\ \A k \in 1..Len(transcript_file) :
                /\ transcript_file[k].start.int = important_segments[k].start
                /\ transcript_file[k].end.int = important_segments[k].end
                /\ transcript_file[k].start.frac = "00" /\ transcript_file[k].end.frac = "00"
                /\ transcript_file[k].text = important_segments[k].text
    /\ TranscriptPath \notin files => transcript_file = <<>>

C13_Witness ==
    /\ pc = "done"
    /\ Len(segments) = 6
    /\ Len(important_segments) = 5
    /\ Len(groups) = 3
    /\ important_segments[5] \notin Range(Concat(groups))
    /\ TranscriptPath \in files
    /\ Len(transcript_file) = 5
    /\ transcript_file[5].start.int = important_segments[5].start

\* C14: whenever L >= 3, create_reel is attempted once for each group index 1, 2
\* and 3 in that order, whatever the earlier renders gave, and the result reports
\* each group on its own: entry g is the path of reel g or None, so it tells
\* which N of the 3 reels were produced.
C14_EveryGroupAttempted ==
    /\ Len(render_calls) <= 3
    /\ \A k \in 1..Len(render_calls) : render_calls[k] = k
    /\ Len(reels_paths) = Len(render_calls)
    /\ (GroupingDone /\ Len(important_segments) >= 3) => render_calls = <<1, 2, 3>>
    /\ \A g \in 1..Len(reels_paths) :
          /\ reels_paths[g] \in {None, ReelPath(g)}
          /\ reels_paths[g] = ReelPath(g) <=> ReelPath(g) \in files
    /\ (RunOver /\ Len(result) = 4) =>
          /\ result[3] = reels_paths
          /\ Cardinality({g \in 1..Len(result[3]) : result[3][g] # None})
                = Cardinality(files \cap {ReelPath(g) : g \in 1..3})

C14_Witness ==
    /\ pc = "done"
    /\ main_exception = None
    /\ render_calls = <<1, 2, 3>>
    /\ \A g \in 1..3 : \E m \in 1..Len(groups[g]) : Playable(groups[g][m], PipelineDuration)
    /\ result[3] = <<ReelPath(1), None, ReelPath(3)>>
    /\ files \cap {ReelPath(g) : g \in 1..3} = {ReelPath(1), ReelPath(3)}

\* position of an operation in Acquired, AudioExtracted, Transcribed, Filtered,
\* (summarization), reel rendering, transcript writing, Cleaned
StageRank(op) ==
    CASE op \in {"download", "tempfile"} -> 1
      [] op = "extract_audio"     -> 2
      [] op = "transcribe"        -> 3
      [] op = "analyze_sentiment" -> 4
      [] op = "summarize"         -> 5
      [] op = "create_reel"       -> 6
      [] op = "save_transcript"   -> 7
      [] op = "unlink"            -> 8

\* C15: the stages of a run occur only in the order Acquired, AudioExtracted,
\* Transcribed, Filtered, reel rendering and transcript writing, Cleaned; none
\* starts before its predecessor succeeded; the source video is deleted only
\* after every render attempt and the transcript write are over (or there is no
\* group), never while a render can still read it.
C15_StageOrder ==
    LET L == Len(important_segments) IN
    /\ trace # <<>> => StageRank(trace[1]) = 1
    /\ \A k \in 2..Len(trace) :
          LET a == StageRank(trace[k - 1])
              b == StageRank(trace[k])
          IN  \/ b = a + 1
              \/ a = 6 /\ b = 6
              \/ a = 5 /\ b = 7 /\ L < 3
    /\ "extract_audio" \in Range(trace) => video_path # None
    /\ "transcribe" \in Range(trace) => AudioPath \in files
    /\ "analyze_sentiment" \in Range(trace) => Len(segments) > 0
    /\ "save_transcript" \in Range(trace) => Count(trace, "create_reel") = IF L >= 3 THEN 3 ELSE 0
    /\ "unlink" \in Range(trace) =>
          /\ trace[Len(trace)] = "unlink"
          /\ "save_transcript" \in Range(trace)
          /\ Count(trace, "create_reel") = IF L >= 3 THEN 3 ELSE 0
    /\ (video_path # None /\ "unlink" \notin Range(trace)) => video_path \in files
    /\ pc = "render" => video_path \in files

C15_Witness ==
    /\ pc = "returned"
    /\ trace = <<"download", "extract_audio", "transcribe", "analyze_sentiment", "summarize",
                 "create_reel", "create_reel", "create_reel", "save_transcript", "unlink">>
    /\ video_path \notin files

\* the summarization service answered with a status other than 200
SummaryRefused ==
    /\ "summarize" \in Range(trace)
    /\ motivational_contents = None
    /\ main_exception # "RequestException"

\* C16: a summarization call that does not return a success status is not
\* fatal: the run still attempts the renders, writes the transcript, cleans up
\* and returns the reel paths and the transcript path, with the summary empty.
C16_SummaryFailureNotFatal ==
    SummaryRefused =>
        /\ failed_stage = "none"
        /\ pc \in {"render", "save", "cleanup", "returned", "done"}
        /\ RunOver =>
              /\ Len(result) = 4
              /\ result[1] = None
              /\ result[2] = transcript_path
              /\ result[3] = reels_paths
              /\ Len(render_calls) = IF Len(important_segments) >= 3 THEN 3 ELSE 0
              /\ "save_transcript" \in Range(trace)
              /\ trace[Len(trace)] = "unlink"
              /\ video_path \notin files

C16_Witness ==
    /\ pc = "done"
    /\ SummaryRefused
    /\ main_exception = None
    /\ result[1] = None
    /\ result[2] = TranscriptPath
    /\ result[3] = <<ReelPath(1), ReelPath(2), ReelPath(3)>>
    /\ files \cap {TempVideo, DownloadedVideo} = {}

\* C17: the payload handed to the summarization service is the newline-joined
\* text of exactly the retained segments, in original order: no text of a
\* dropped segment, and every retained segment, those in no reel included.
C17_SummaryPayload ==
    LET L == Len(important_segments)
        retained == {k \in 1..Len(segments) : Compound(segments[k].text) > 5}
    IN  /\ "summarize" \notin Range(trace) => summary_payload = <<>>
        /\ "summarize" \in Range(trace) =>
              /\ Len(summary_payload) = IF L = 0 THEN 0 ELSE 2 * L - 1
              /\ \A k \in 1..L : summary_payload[2 * k - 1] = important_segments[k].text
              /\ \A k \in 1..(L - 1) : summary_payload[2 * k] = "\n"
              /\ L = Cardinality(retained)
              /\ \A k \in 1..L : summary_payload[2 * k - 1] = segments[Nth(retained, k)].text

C17_Witness ==
    /\ pc = "render"
    /\ Len(segments) = 6
    /\ Len(important_segments) = 4
    /\ segments[2].text = ""
    /\ summary_payload = <<important_segments[1].text, "\n", important_segments[2].text, "\n",
                           important_segments[3].text, "\n", important_segments[4].text>>

\* C18: transcribe_audio_whisper maps English, Hindi, Tamil, Malayalam to the
\* codes en, hi, ta, ml and every other selector value to en; an unrecognized
\* language never fails the call by itself: it returns what whisper produced.
C18_LanguageFallback ==
    (unit.fn = "transcribe_audio_whisper" /\ unit.returned) =>
        /\ unit.language = "English"   => unit.code = "en"
        /\ unit.language = "Hindi"     => unit.code = "hi"
        /\ unit.language = "Tamil"     => unit.code = "ta"
        /\ unit.language = "Malayalam" => unit.code = "ml"
        /\ unit.language \notin {"English", "Hindi", "Tamil", "Malayalam"} => unit.code = "en"
        /\ unit.ret = unit.outcome

C18_Witness ==
    /\ unit.fn = "transcribe_audio_whisper"
    /\ unit.returned
    /\ unit.language = "French"
    /\ unit.code = "en"
    /\ ~unit.ret.isNone
    /\ Len(unit.ret.value) = 3

\* C20: each progress percentage is emitted as the stage it stands for
\* completes: 20 only after audio extraction succeeded, 60 only after the
\* sentiment filter, 80 only after summarization, 100 only after the transcript
\* was written.
C20_ProgressAfterStage ==
    LET emitted == Range(progress)
        done == Range(trace)
    IN  /\ 20 \in emitted => ("extract_audio" \in done /\ AudioPath \in files)
        /\ 60 \in emitted => "analyze_sentiment" \in done
        /\ 80 \in emitted => "summarize" \in done
        /\ 100 \in emitted => ("save_transcript" \in done /\ TranscriptPath \in files)

\* C22: contradictory inputs are rejected: when both an uploaded video and a
\* URL are supplied, process_video_upload fails with an input error before any
\* side effect (no download, no temporary file, no later stage).
C22_ContradictoryRejected ==
    (pc # "idle" /\ video_file # None /\ youtube_url # "") =>
        /\ trace = <<>>
        /\ files = {}
        /\ pc \in {"acquire", "returned", "done"}
        /\ RunOver => failed_stage = "input"

\* C24: when transcription yields at least one segment and fewer than 3 are
\* retained (zero included), the run is still a success: no render is
\* attempted, the transcript has one line per retained segment (none when none
\* is retained), the temporary video is deleted and the reel list is empty.
C24_FewRetainedSucceeds ==
    LET L == Len(important_segments) IN
    ("analyze_sentiment" \in Range(trace) /\ L < 3) =>
        /\ Len(segments) >= 1
        /\ failed_stage = "none"
        /\ pc # "render"
        /\ render_calls = <<>> /\ reels_paths = <<>> /\ groups = <<>>
        /\ "create_reel" \notin Range(trace)
        /\ files \cap {ReelPath(g) : g \in 1..3} = {}
        /\ TranscriptPath \in files => Len(transcript_file) = L
        /\ (RunOver /\ main_exception # "RequestException") =>
              /\ Len(result) = 4
              /\ result[3] = <<>>
              /\ result[4] = important_segments
              /\ "save_transcript" \in Range(trace)
              /\ video_path \notin files
              /\ main_exception = None

C24_Witness ==
    /\ pc = "done"
    /\ main_exception = None
    /\ Len(segments) = 2
    /\ important_segments = <<>>
    /\ TranscriptPath \in files
    /\ transcript_file = <<>>
    /\ result[2] = TranscriptPath
    /\ result[3] = <<>>
    /\ TempVideo \notin files

\* save_transcript was called and wrote no file
SaveFailed == "save_transcript" \in Range(trace) /\ TranscriptPath \notin files

\* C25: a transcript write failure is fatal for that artifact only: the run
\* still returns the reel paths already produced and the summary, with the
\* transcript path empty, still deletes the temporary video and raises nothing.
C25_TranscriptFailureLocal ==
    SaveFailed =>
        /\ transcript_path = None
        /\ failed_stage = "none"
        /\ pc \in {"cleanup", "returned", "done"}
        /\ \A g \in 1..Len(reels_paths) : reels_paths[g] # None => reels_paths[g] \in files
        /\ RunOver =>
              /\ Len(result) = 4
              /\ result[1] = motivational_contents
              /\ result[2] = None
              /\ result[3] = reels_paths
              /\ trace[Len(trace)] = "unlink"
              /\ video_path \notin files
              /\ main_exception = None

C25_Witness ==
    /\ pc = "done"
    /\ SaveFailed
    /\ main_exception = None
    /\ result[1] = "summary"
    /\ result[2] = None
    /\ result[3] = <<ReelPath(1), ReelPath(2), ReelPath(3)>>
    /\ {ReelPath(g) : g \in 1..3} \subseteq files
    /\ DownloadedVideo \notin files

\* C26: the list of reel paths a run returns holds only paths of reel files
\* that were written: one entry per rendered group, no placeholder for a failed
\* render, so its length is the number N of reels produced.
C26_OnlyWrittenReels ==
    (RunOver /\ Len(result) = 4) =>
        /\ \A g \in 1..Len(result[3]) : result[3][g] # None /\ result[3][g] \in files
        /\ Len(result[3]) = Cardinality(files \cap {ReelPath(g) : g \in 1..3})

\* C27: within one run the percentages sent to the progress bar never
\* decrease.
C27_ProgressMonotone ==
    \A k \in 1..(Len(progress) - 1) : progress[k] <= progress[k + 1]

\* C21: a reel file keyed by (username, group index) is created once by a
\* successful group render and never mutated afterwards: no later run of the
\* same user on another video overwrites an existing reel file.
C21_ReelWrittenOnce ==
    unit.fn = "reel_runs" => \A k \in 1..3 : unit.writes[k] <= 1

\* C23: the shared speech model is guarded by a one-at-a-time admission
\* policy: among concurrent runs at most one is inside the transcribe call.
C23_SingleTranscriber ==
    unit.fn = "sessions" =>
        Cardinality({s \in DOMAIN unit.at : unit.at[s] = "transcribing"}) <= 1

\* C28: in any sequence of Login, Logout and menu selections,
\* process_video_upload is invoked only while is_authenticated is true and
\* user_data is the record of the user who logged in; after a confirmed Logout
\* no run can start until a later successful verify_user.
C28_AuthGate ==
    unit.fn = "main" =>
        /\ \A k \in 1..Len(unit.started) :
              /\ unit.started[k].authenticated
              /\ unit.started[k].username \in {"@amy", "@bob"}
              /\ unit.started[k].username = unit.started[k].verified
        /\ unit.is_authenticated <=> unit.verified # None
        /\ unit.user_data = unit.verified

C28_Witness ==
    /\ unit.fn = "main"
    /\ ~unit.is_authenticated
    /\ unit.user_data = None
    /\ unit.choice = "Process Video"
    /\ Len(unit.started) = 2
    /\ unit.started[1].username = "@amy"
    /\ unit.started[2].username = "@bob"

\* C29: in app.py a Register action that is rejected (invalid email, weak
\* password, or password and confirmation that differ) leaves the stored users
\* unchanged (none deleted, modified or inserted) and the page on 'register'.
C29_RejectedRegisterFrame ==
    LET last == unit.last IN
    (/\ unit.fn = "app"
     /\ last.op = "register"
     /\ \/ last.email = "amy-at-x"
        \/ last.password = "weak"
        \/ last.password # last.confirm) =>
        /\ unit.users = last.users_before
        /\ unit.page = "register"

\* C30: in app.py's page machine the pages 'profile' and 'upload_video' are
\* reachable only after a successful verify_user: page in {profile,
\* upload_video} implies logged_in, and the only transitions are
\* login->register, register->login, login->profile (on credentials of a stored
\* user only), profile->upload_video and upload_video->profile.
C30_PageMachine ==
    /\ [](unit.fn = "app" => (unit.page \in {"profile", "upload_video"} => unit.logged_in))
    /\ [][unit.fn = "app" =>
            /\ \/ unit'.page = unit.page
               \/ <<unit.page, unit'.page>> \in
                     {<<"login", "register">>, <<"register", "login">>, <<"login", "profile">>,
                      <<"profile", "upload_video">>, <<"upload_video", "profile">>}
            /\ (unit.page = "login" /\ unit'.page = "profile") =>
                  /\ unit'.last.op = "login"
                  /\ [email |-> unit'.last.email, password |-> unit'.last.password] \in unit.users
                  /\ unit'.logged_in
                  /\ unit'.email = unit'.last.email
            /\ unit.logged_in => unit'.logged_in]_vars

C30_Witness ==
    /\ unit.fn = "app"
    /\ unit.page = "upload_video"
    /\ unit.logged_in
    /\ unit.email = "bob@x.io"
    /\ unit.users = {[email |-> "bob@x.io", password |-> "Str0ng!pw"]}

====
